---- MODULE Spec2Model ----
(***************************************************************************)
(* Model of SemanticCacheManager (api/app/services/semantic_cache.py): the *)
(* two-tier lookup, the store path, the statistics block and the cache     *)
(* administration calls, over an abstract Vector Store collection and an   *)
(* abstract Embedding Provider whose failures are chosen per call.         *)
(***************************************************************************)
EXTENDS Integers, Sequences, FiniteSets, TLC

VARIABLES
    collExists,          \* the server holds "search_cache" and self.collection is bound to it
    entries,             \* the collection: cache key -> [document, embedding, metadata]
    stats,               \* self.stats
    semantic_threshold,  \* self.semantic_threshold as <<numerator, denominator>>
    nops,                \* completed calls; also the reading of time.time()
    last,                \* the last completed call: arguments, external calls, return value
    lastStored,          \* history: triple -> result of its most recent successful store
                         \*   into the present collection
    everStored,          \* history: the triples ever stored successfully
    tally,               \* history: statuses returned since construction / reset_stats
    threads,             \* the requests running as threads against the one manager:
                         \*   position, loaded counter value, local variables
    fingerprints,        \* history: the calls of _generate_cache_key made on their
                         \*   own, in order, each with its arguments and its result
    messages             \* the messages table of ChatMemory, in insertion (id) order

vars == <<collExists, entries, stats, semantic_threshold, nops, last, lastStored,
          everStored, tally, threads, fingerprints, messages>>

----------------------------------------------------------------------------
(* Bounds *)

MaxOps == 3
MaxElapsed == 1

(* Inputs *)

\* (tool, question, context): two tools, two questions whose embeddings are
\* one apart, two contexts, and strings that hold the key's separator
Triples ==
    {<<"jina", "q", "">>, <<"jina", "q", "x|">>, <<"jina", "q|x", "">>,
     <<"tavily", "q", "">>}
Elapsed == 1..MaxElapsed
SearchTimes == {5}
Thresholds == {<<1, 2>>, <<9, 10>>}

MetaTruncate == 500

----------------------------------------------------------------------------
(* Python / JSON values.  A value is [kind, keys, id, sim]: kind is the    *)
(* JSON type, keys the member names of an object, id tells two payloads    *)
(* apart, sim is the value under "_cache_similarity" (NoSim when absent).  *)

NoSim == <<0, 0>>

PyNone == [kind |-> "null", keys |-> {}, id |-> 0, sim |-> NoSim]

ResultA == [kind |-> "object", keys |-> {"content", "sources"}, id |-> 1, sim |-> NoSim]
ResultList == [kind |-> "array", keys |-> {}, id |-> 2, sim |-> NoSim]
ResultB == [kind |-> "object", keys |-> {"content", "sources"}, id |-> 3, sim |-> NoSim]

\* bool(v) of a deserialized value: None and the empty dict are falsy
Truthy(v) == v.kind # "null" /\ (v.kind = "object" => v.keys # {})

SearchResults == {ResultA, ResultList, PyNone}

\* the stores the callers make: a result object under any triple, and the
\* values that are not objects under the first triple
StoreInputs ==
    {in \in Triples \X SearchResults : in[2] = ResultA \/ in[1] = <<"jina", "q", "">>}

\* text that json.loads rejects
Garbage == [wellformed |-> FALSE, kind |-> "null", keys |-> {}, id |-> 0, sim |-> NoSim]

\* json.dumps: the text of a JSON value
JsonDumps(v) ==
    [wellformed |-> TRUE, kind |-> v.kind, keys |-> v.keys, id |-> v.id, sim |-> v.sim]

\* json.loads: raises on text that is not JSON, else the value the text denotes
JsonLoads(s) ==
    IF s.wellformed
    THEN [raised |-> FALSE,
          value |-> [kind |-> s.kind, keys |-> s.keys, id |-> s.id, sim |-> s.sim]]
    ELSE [raised |-> TRUE, value |-> PyNone]

\* cached_data["_cache_similarity"] = similarity: item assignment is defined
\* on a dict only; on a list, None, str or number it raises TypeError
SetCacheSimilarity(v, similarity) ==
    IF v.kind = "object"
    THEN [raised |-> FALSE,
          value |-> [v EXCEPT !.keys = @ \cup {"_cache_similarity"}, !.sim = similarity]]
    ELSE [raised |-> TRUE, value |-> v]

----------------------------------------------------------------------------
(* Cache key and embedding *)

\* a key that leaves the context out
GenerateCacheKeyNoContext(tool, question, context) == tool \o "|" \o question

\* sha256 is taken as injective on the combined string, so the key is the
\* combined string itself
GenerateCacheKey(tool, question, context) ==
    tool \o "|" \o question \o "|" \o context

\* the Embedding Provider: a deterministic vector per text (one coordinate)
EmbeddingOf(text) ==
    IF text = "q" THEN 0 ELSE IF text = "q|x" THEN 1 ELSE 3

\* an embedding helper that answers a zero vector where the provider raised
GenerateEmbeddingZero(text, ef) ==
    [none |-> FALSE, vector |-> IF ef = "raise" THEN 0 ELSE EmbeddingOf(text)]

\* _generate_embedding: the vector, or None when the provider call raises
GenerateEmbedding(text, ef) ==
    IF ef = "raise"
    THEN [none |-> TRUE, vector |-> 0]
    ELSE [none |-> FALSE, vector |-> EmbeddingOf(text)]

\* s[:500]
Truncate(s) ==
    IF Len(s) <= MetaTruncate THEN s ELSE SubSeq(s, 1, MetaTruncate)

----------------------------------------------------------------------------
(* The Vector Store collection *)

NoEntries == <<>>

\* no id: the query had no candidate, no record is malformed
NoCandidate == "<none>"

\* squared L2 distance of the collection's default space
Distance(e1, e2) == (e1 - e2) * (e1 - e2)

\* the document text the store hands back for id k; bad is the id of a
\* record whose text comes back malformed during the call
ReadDocument(ents, k, bad) ==
    IF k = bad THEN Garbage ELSE ents[k].document

\* collection.get(ids=[key]): raises when the store is unreachable or the
\* collection is gone
CollectionGet(exists, ents, key, gf, bad) ==
    IF ~exists \/ gf = "raise"
    THEN [raised |-> TRUE, ids |-> <<>>, documents |-> <<>>]
    ELSE IF key \in DOMAIN ents
    THEN [raised |-> FALSE, ids |-> <<key>>, documents |-> <<ReadDocument(ents, key, bad)>>]
    ELSE [raised |-> FALSE, ids |-> <<>>, documents |-> <<>>]

\* a query without the where filter
SameToolUnfiltered(ents, tool) == DOMAIN ents

\* the ids eligible for collection.query(where={"tool": tool})
SameTool(ents, tool) == {k \in DOMAIN ents : ents[k].metadata.tool = tool}

\* a query that answers with any entry of the tool, ranked or not
NearestUnranked(ents, vector, tool) == SameTool(ents, tool)

\* the ids collection.query(n_results=1, where={"tool": tool}) may rank first
Nearest(ents, vector, tool) ==
    {k \in SameTool(ents, tool) :
        \A k2 \in SameTool(ents, tool) :
            Distance(ents[k].embedding, vector) <= Distance(ents[k2].embedding, vector)}

\* collection.query(...) answering with candidate k (NoCandidate: none)
CollectionQuery(exists, ents, vector, k, qf, bad) ==
    IF ~exists \/ qf = "raise"
    THEN [raised |-> TRUE, ids |-> <<>>, documents |-> <<>>, distances |-> <<>>]
    ELSE IF k = NoCandidate
    THEN [raised |-> FALSE, ids |-> <<>>, documents |-> <<>>, distances |-> <<>>]
    ELSE [raised |-> FALSE, ids |-> <<k>>,
          documents |-> <<ReadDocument(ents, k, bad)>>,
          distances |-> <<Distance(ents[k].embedding, vector)>>]

\* an insert that never overwrites: a second record is added beside the
\* one already under the key
CollectionAppend(ents, key, document, embedding, metadata) ==
    LET id == IF key \in DOMAIN ents THEN key \o "#" ELSE key IN
    [k \in DOMAIN ents \cup {id} |->
        IF k = id
        THEN [document |-> document, embedding |-> embedding, metadata |-> metadata]
        ELSE ents[k]]

\* an upsert into a store that keeps the newest record only
CollectionUpsertEvicting(ents, key, document, embedding, metadata) ==
    [k \in {key} |->
        [document |-> document, embedding |-> embedding, metadata |-> metadata]]

\* an upsert that reports success and writes nothing
CollectionUpsertDropped(ents, key, document, embedding, metadata) == ents

\* collection.upsert(ids=[key], ...): insert or overwrite the entry at key
CollectionUpsert(ents, key, document, embedding, metadata) ==
    [k \in DOMAIN ents \cup {key} |->
        IF k = key
        THEN [document |-> document, embedding |-> embedding, metadata |-> metadata]
        ELSE ents[k]]

----------------------------------------------------------------------------
(* Statistics *)

ZeroStats ==
    [exact_hits |-> 0, semantic_hits |-> 0, misses |-> 0, total_queries |-> 0,
     total_saved_time |-> 0, total_exact_time |-> 0, total_semantic_time |-> 0]

\* a snapshot whose hit rate counts the exact hits only
GetStatsSnapshotExactOnly(st) ==
    [total_queries |-> st.total_queries,
     exact_hits |-> st.exact_hits,
     semantic_hits |-> st.semantic_hits,
     misses |-> st.misses,
     hit_rate |-> IF st.total_queries > 0
                  THEN <<st.exact_hits * 100, st.total_queries>>
                  ELSE <<0, 1>>,
     avg_exact_retrieval_time |-> IF st.exact_hits > 0
                                  THEN <<st.total_exact_time, st.exact_hits>>
                                  ELSE <<0, 1>>,
     avg_semantic_retrieval_time |-> IF st.semantic_hits > 0
                                     THEN <<st.total_semantic_time, st.semantic_hits>>
                                     ELSE <<0, 1>>,
     total_saved_time |-> st.total_saved_time]

\* a quotient a / b kept as the pair <<a, b>>; <<0, 1>> is the guarded 0
GetStatsSnapshot(st) ==
    [total_queries |-> st.total_queries,
     exact_hits |-> st.exact_hits,
     semantic_hits |-> st.semantic_hits,
     misses |-> st.misses,
     hit_rate |-> IF st.total_queries > 0
                  THEN <<(st.exact_hits + st.semantic_hits) * 100, st.total_queries>>
                  ELSE <<0, 1>>,
     avg_exact_retrieval_time |-> IF st.exact_hits > 0
                                  THEN <<st.total_exact_time, st.exact_hits>>
                                  ELSE <<0, 1>>,
     avg_semantic_retrieval_time |-> IF st.semantic_hits > 0
                                     THEN <<st.total_semantic_time, st.semantic_hits>>
                                     ELSE <<0, 1>>,
     total_saved_time |-> st.total_saved_time]

\* a get_stats that counts itself as a query
GetStatsCounting(st) == [st EXCEPT !.total_queries = @ + 1]

\* self.stats after get_stats: the method reads the dict and assigns no key
GetStatsLeaves(st) == st

\* a reset that zeroes the four counters and keeps the accumulators
ResetCountersOnly(st) ==
    [st EXCEPT !.exact_hits = 0, !.semantic_hits = 0, !.misses = 0, !.total_queries = 0]

\* reset_stats: self.stats is rebound to a fresh dict of zeros
Reset(st) == ZeroStats

----------------------------------------------------------------------------
(* get_cached_search *)

\* similarity = 1.0 / (1.0 + distance), as <<numerator, denominator>>
SimilarityOf(distance) == <<1, 1 + distance>>

\* a >= b for two quotients with positive denominators
AtLeast(a, b) == a[1] * b[2] >= b[1] * a[2]

\* a Tier 1 that is passed over: the lookup goes to Tier 2 at once
Tier1Skipped(exists, ents, key, gf, bad) ==
    [hit |-> FALSE, data |-> PyNone, raised |-> FALSE]

\* a Tier 1 whose except clause does not cover the failure
Tier1Propagating(exists, ents, key, gf, bad) ==
    LET exact_results == CollectionGet(exists, ents, key, gf, bad) IN
    IF exact_results.raised
    THEN [hit |-> FALSE, data |-> PyNone, raised |-> TRUE]
    ELSE IF Len(exact_results.ids) = 0
    THEN [hit |-> FALSE, data |-> PyNone, raised |-> FALSE]
    ELSE LET cached == JsonLoads(exact_results.documents[1]) IN
         IF cached.raised
         THEN [hit |-> FALSE, data |-> PyNone, raised |-> TRUE]
         ELSE [hit |-> TRUE, data |-> cached.value, raised |-> FALSE]

\* TIER 1, the try block: a hit returns from the function, anything else
\* (no id, an exception from get or from json.loads) falls through;
\* raised: an exception leaves the block (except Exception catches all)
Tier1(exists, ents, key, gf, bad) ==
    LET exact_results == CollectionGet(exists, ents, key, gf, bad) IN
    IF exact_results.raised \/ Len(exact_results.ids) = 0
    THEN [hit |-> FALSE, data |-> PyNone, raised |-> FALSE]
    ELSE LET cached == JsonLoads(exact_results.documents[1]) IN
         IF cached.raised
         THEN [hit |-> FALSE, data |-> PyNone, raised |-> FALSE]
         ELSE [hit |-> TRUE, data |-> cached.value, raised |-> FALSE]

\* TIER 2, the try block: the counters are bumped before the similarity is
\* attached, so an exception from the attachment leaves them bumped
Tier2(st, exists, ents, threshold, vector, cand, qf, bad, rt) ==
    LET semantic_results == CollectionQuery(exists, ents, vector, cand, qf, bad) IN
    IF semantic_results.raised \/ Len(semantic_results.ids) = 0
    THEN [hit |-> FALSE, data |-> PyNone, stats |-> st, raised |-> FALSE]
    ELSE LET similarity == SimilarityOf(semantic_results.distances[1]) IN
         IF ~AtLeast(similarity, threshold)
         THEN [hit |-> FALSE, data |-> PyNone, stats |-> st, raised |-> FALSE]
         ELSE LET cached == JsonLoads(semantic_results.documents[1]) IN
              IF cached.raised
              THEN [hit |-> FALSE, data |-> PyNone, stats |-> st, raised |-> FALSE]
              ELSE LET counted == [st EXCEPT !.semantic_hits = @ + 1,
                                             !.total_semantic_time = @ + rt]
                       attached == SetCacheSimilarity(cached.value, similarity)
                   IN  IF attached.raised
                       THEN [hit |-> FALSE, data |-> PyNone, stats |-> counted,
                             raised |-> FALSE]
                       ELSE [hit |-> TRUE, data |-> attached.value, stats |-> counted,
                             raised |-> FALSE]

\* the candidates the nearest-neighbour query may answer with
Candidates(ents, vector, tool) ==
    IF Nearest(ents, vector, tool) = {} THEN {NoCandidate} ELSE Nearest(ents, vector, tool)

\* the whole call: the returned triple, the statistics it leaves, and the
\* external calls it made with their outcomes ("none": call not made,
\* "malformed": the call handed back a document that json.loads rejected)
Lookup(st, exists, ents, threshold, tool, question, context, gf, ef, qf, bad, cand, rt) ==
    LET counted == [st EXCEPT !.total_queries = @ + 1]
        cache_key == GenerateCacheKey(tool, question, context)
        t1 == Tier1(exists, ents, cache_key, gf, bad)
        query_embedding == GenerateEmbedding(question, ef)
        t2 == Tier2(counted, exists, ents, threshold, query_embedding.vector, cand, qf,
                    bad, rt)
        candOk == cand # NoCandidate /\ exists /\ qf # "raise"
        dist == IF candOk THEN Distance(ents[cand].embedding, query_embedding.vector)
                ELSE -1
        go == IF ~exists \/ gf = "raise" THEN "raise"
              ELSE IF cache_key \in DOMAIN ents /\ bad = cache_key THEN "malformed"
              ELSE "ok"
        qo == IF ~exists \/ qf = "raise" THEN "raise"
              ELSE IF candOk /\ bad = cand /\ AtLeast(SimilarityOf(dist), threshold)
              THEN "malformed"
              ELSE "ok"
    IN  IF t1.raised
        THEN [doc |-> PyNone, status |-> "", raised |-> TRUE, stats |-> counted,
              calls |-> <<"get">>, getOutcome |-> go, embedOutcome |-> "none",
              queryOutcome |-> "none", candidate |-> NoCandidate, distance |-> -1]
        ELSE IF t1.hit
        THEN [doc |-> t1.data, status |-> "exact_hit", raised |-> FALSE,
              stats |-> [counted EXCEPT !.exact_hits = @ + 1, !.total_exact_time = @ + rt],
              calls |-> <<"get">>, getOutcome |-> go, embedOutcome |-> "none",
              queryOutcome |-> "none", candidate |-> NoCandidate, distance |-> -1]
        ELSE IF query_embedding.none
        THEN [doc |-> PyNone, status |-> "miss", raised |-> FALSE,
              stats |-> [counted EXCEPT !.misses = @ + 1],
              calls |-> <<"get", "embed">>, getOutcome |-> go, embedOutcome |-> ef,
              queryOutcome |-> "none", candidate |-> NoCandidate, distance |-> -1]
        ELSE IF t2.raised
        THEN [doc |-> PyNone, status |-> "", raised |-> TRUE, stats |-> t2.stats,
              calls |-> <<"get", "embed", "query">>, getOutcome |-> go, embedOutcome |-> ef,
              queryOutcome |-> qo, candidate |-> NoCandidate, distance |-> -1]
        ELSE IF t2.hit
        THEN [doc |-> t2.data, status |-> "semantic_hit", raised |-> FALSE,
              stats |-> t2.stats,
              calls |-> <<"get", "embed", "query">>, getOutcome |-> go, embedOutcome |-> ef,
              queryOutcome |-> qo, candidate |-> cand, distance |-> dist]
        ELSE [doc |-> PyNone, status |-> "miss", raised |-> FALSE,
              stats |-> [t2.stats EXCEPT !.misses = @ + 1],
              calls |-> <<"get", "embed", "query">>, getOutcome |-> go, embedOutcome |-> ef,
              queryOutcome |-> qo,
              candidate |-> IF candOk THEN cand ELSE NoCandidate, distance |-> dist]

\* a lookup whose semantic hit writes the similarity into the stored record
LookupWritesSimilarity(ents, status, candidate) ==
    IF status = "semantic_hit"
    THEN [ents EXCEPT ![candidate].document.keys = @ \cup {"_cache_similarity"}]
    ELSE ents

\* the entries after a lookup: get and query only read, and json.loads
\* builds a new object per call, so the item assignment of a semantic hit
\* reaches the returned payload alone
LookupLeaves(ents, status, candidate) == ents

----------------------------------------------------------------------------
(* store_search_result *)

\* a store that writes the entry before it looks at the embedding
StoreBeforeEmbeddingCheck(exists, ents, tool, question, context, search_result, search_time, now, ef, uf) ==
    LET cache_key == GenerateCacheKey(tool, question, context)
        query_embedding == GenerateEmbedding(question, ef)
        metadata == [tool |-> tool,
                     question |-> Truncate(question),
                     context |-> IF context # "" THEN Truncate(context) ELSE "",
                     cached_at |-> now,
                     original_search_time |-> search_time]
        written == CollectionUpsert(ents, cache_key, JsonDumps(search_result),
                                    query_embedding.vector, metadata)
    IN  IF ~exists \/ uf = "raise"
        THEN [ret |-> FALSE, raised |-> FALSE, entries |-> ents,
              calls |-> <<"embed", "upsert">>,
              embedOutcome |-> ef, upsertOutcome |-> "raise"]
        ELSE [ret |-> ~query_embedding.none, raised |-> FALSE, entries |-> written,
              calls |-> <<"embed", "upsert">>,
              embedOutcome |-> ef, upsertOutcome |-> "ok"]

\* a store that asks the Embedding Provider a second time when the first
\* request failed
StoreRetryingEmbedding(exists, ents, tool, question, context, search_result, search_time, now, ef, uf) ==
    LET cache_key == GenerateCacheKey(tool, question, context)
        query_embedding == GenerateEmbedding(question, ef)
        metadata == [tool |-> tool,
                     question |-> Truncate(question),
                     context |-> IF context # "" THEN Truncate(context) ELSE "",
                     cached_at |-> now,
                     original_search_time |-> search_time]
    IN  IF query_embedding.none
        THEN [ret |-> FALSE, raised |-> FALSE, entries |-> ents,
              calls |-> <<"embed", "embed">>,
              embedOutcome |-> ef, upsertOutcome |-> "none"]
        ELSE IF ~exists \/ uf = "raise"
        THEN [ret |-> FALSE, raised |-> FALSE, entries |-> ents,
              calls |-> <<"embed", "upsert">>,
              embedOutcome |-> ef, upsertOutcome |-> "raise"]
        ELSE [ret |-> TRUE, raised |-> FALSE,
              entries |-> CollectionUpsert(ents, cache_key, JsonDumps(search_result),
                                           query_embedding.vector, metadata),
              calls |-> <<"embed", "upsert">>,
              embedOutcome |-> ef, upsertOutcome |-> "ok"]

\* the try block: False when the embedding is None or anything raises,
\* True after the upsert
Store(exists, ents, tool, question, context, search_result, search_time, now, ef, uf) ==
    LET cache_key == GenerateCacheKey(tool, question, context)
        query_embedding == GenerateEmbedding(question, ef)
        metadata == [tool |-> tool,
                     question |-> Truncate(question),
                     context |-> IF context # "" THEN Truncate(context) ELSE "",
                     cached_at |-> now,
                     original_search_time |-> search_time]
    IN  IF query_embedding.none
        THEN [ret |-> FALSE, raised |-> FALSE, entries |-> ents, calls |-> <<"embed">>,
              embedOutcome |-> ef, upsertOutcome |-> "none"]
        ELSE IF ~exists \/ uf = "raise"
        THEN [ret |-> FALSE, raised |-> FALSE, entries |-> ents,
              calls |-> <<"embed", "upsert">>,
              embedOutcome |-> ef, upsertOutcome |-> "raise"]
        ELSE [ret |-> TRUE, raised |-> FALSE,
              entries |-> CollectionUpsert(ents, cache_key, JsonDumps(search_result),
                                           query_embedding.vector, metadata),
              calls |-> <<"embed", "upsert">>,
              embedOutcome |-> ef, upsertOutcome |-> "ok"]

\* a store that books the search time as time saved
StoreAccumulating(st, search_time) ==
    [st EXCEPT !.total_saved_time = @ + search_time]

\* the statistics after a store: no statement of store_search_result reads
\* or writes self.stats; search_time goes into the entry's metadata only
StoreLeavesStats(st, search_time) == st

----------------------------------------------------------------------------
(* clear_cache *)

\* a clear that rebinds the collection without deleting it
ClearWithoutDelete(exists, ents, df, cf) ==
    IF df = "raise"
    THEN [ret |-> FALSE, raised |-> FALSE, exists |-> exists, entries |-> ents,
          calls |-> <<"delete">>, deleteOutcome |-> "raise", createOutcome |-> "none"]
    ELSE IF ~exists
    THEN [ret |-> FALSE, raised |-> FALSE, exists |-> exists, entries |-> ents,
          calls |-> <<"delete">>, deleteOutcome |-> "missing", createOutcome |-> "none"]
    ELSE IF cf = "raise"
    THEN [ret |-> FALSE, raised |-> FALSE, exists |-> exists, entries |-> ents,
          calls |-> <<"delete", "create">>, deleteOutcome |-> "ok",
          createOutcome |-> "raise"]
    ELSE [ret |-> TRUE, raised |-> FALSE, exists |-> TRUE, entries |-> ents,
          calls |-> <<"delete", "create">>, deleteOutcome |-> "ok",
          createOutcome |-> "ok"]

\* delete_collection then get_or_create_collection, in one try block: a
\* failure of the second call leaves the collection deleted, and
\* delete_collection of a collection that is not there raises ("missing":
\* the Vector Store answered, with an error)
Clear(exists, ents, df, cf) ==
    IF df = "raise"
    THEN [ret |-> FALSE, raised |-> FALSE, exists |-> exists, entries |-> ents,
          calls |-> <<"delete">>, deleteOutcome |-> "raise", createOutcome |-> "none"]
    ELSE IF ~exists
    THEN [ret |-> FALSE, raised |-> FALSE, exists |-> exists, entries |-> ents,
          calls |-> <<"delete">>, deleteOutcome |-> "missing", createOutcome |-> "none"]
    ELSE IF cf = "raise"
    THEN [ret |-> FALSE, raised |-> FALSE, exists |-> FALSE, entries |-> NoEntries,
          calls |-> <<"delete", "create">>, deleteOutcome |-> "ok",
          createOutcome |-> "raise"]
    ELSE [ret |-> TRUE, raised |-> FALSE, exists |-> TRUE, entries |-> NoEntries,
          calls |-> <<"delete", "create">>, deleteOutcome |-> "ok",
          createOutcome |-> "ok"]

----------------------------------------------------------------------------
(* The manager as a state machine: one action per public method, each call *)
(* running to completion (a single-threaded caller).                       *)

EmbedFaults == {"ok", "raise"}
CallFaults == {"ok", "raise"}

ZeroTally == [exact_hit |-> 0, semantic_hit |-> 0, miss |-> 0]

\* the record of the last call; statsBefore is the statistics a lookup, a
\* store, a clear, a reset or a get_stats started from, entriesBefore the entries a
\* lookup, a store, a reset or a get_stats started from; repeated: a get_stats that
\* directly follows a get_stats, whose snapshot is prevSnapshot; of a /query
\* request: session, failed (the first call that raised, "none" when none
\* did) and messagesBefore (the table the request started from); of a
\* ChatMemory.get_history call: session, limit and the list returned
NoCall ==
    [op |-> "init", tool |-> "", question |-> "", context |-> "",
     doc |-> PyNone, status |-> "", ret |-> FALSE, raised |-> FALSE, calls |-> <<>>,
     getOutcome |-> "none", embedOutcome |-> "none", queryOutcome |-> "none",
     upsertOutcome |-> "none", deleteOutcome |-> "none", createOutcome |-> "none",
     candidate |-> NoCandidate, distance |-> -1,
     snapshot |-> GetStatsSnapshot(ZeroStats),
     repeated |-> FALSE, prevSnapshot |-> GetStatsSnapshot(ZeroStats),
     statsBefore |-> ZeroStats, entriesBefore |-> NoEntries,
     session |-> "", failed |-> "none", limit |-> 0, history |-> <<>>,
     messagesBefore |-> <<>>]

\* no request is running as a thread
NoThreads == <<>>

Init ==
    /\ collExists = TRUE
    /\ entries = NoEntries
    /\ stats = ZeroStats
    /\ semantic_threshold \in Thresholds
    /\ nops = 0
    /\ last = NoCall
    /\ lastStored = <<>>
    /\ everStored = {}
    /\ tally = ZeroTally
    /\ threads = NoThreads
    /\ fingerprints = <<>>
    /\ messages = <<>>

\* One representative per outcome of a call: a fault of a call that is not
\* made, or an input that is not used (a reading of the clock, the payload
\* of a store that writes nothing), is pinned to its first value.
Effective(st, r, gf, ef, qf, bad, cand, rt, cands) ==
    /\ gf = (IF r.getOutcome = "raise" THEN "raise" ELSE "ok")
    /\ IF r.embedOutcome = "none" THEN ef = "ok" ELSE ef = r.embedOutcome
    /\ qf = (IF r.queryOutcome = "raise" THEN "raise" ELSE "ok")
    /\ (r.getOutcome # "malformed" /\ r.queryOutcome # "malformed") => bad = NoCandidate
    /\ (r.candidate = NoCandidate => cand = CHOOSE k \in cands : TRUE)
    /\ (/\ r.stats.total_exact_time = st.total_exact_time
        /\ r.stats.total_semantic_time = st.total_semantic_time) => rt = 1

GetCachedSearch(tool, question, context) ==
    /\ nops < MaxOps
    /\ \E gf \in CallFaults, ef \in EmbedFaults, qf \in CallFaults, rt \in Elapsed :
         \E cand \in Candidates(entries, EmbeddingOf(question), tool) :
         \E bad \in {NoCandidate} \cup
                     ({GenerateCacheKey(tool, question, context), cand} \cap DOMAIN entries) :
            LET r == Lookup(stats, collExists, entries, semantic_threshold,
                            tool, question, context, gf, ef, qf, bad, cand, rt)
            IN  /\ Effective(stats, r, gf, ef, qf, bad, cand, rt,
                              Candidates(entries, EmbeddingOf(question), tool))
                /\ stats' = r.stats
                /\ entries' = LookupLeaves(entries, r.status, r.candidate)
                /\ last' = [NoCall EXCEPT !.op = "lookup", !.tool = tool,
                               !.question = question, !.context = context,
                               !.doc = r.doc, !.status = r.status, !.raised = r.raised,
                               !.calls = r.calls,
                               !.getOutcome = r.getOutcome,
                               !.embedOutcome = r.embedOutcome,
                               !.queryOutcome = r.queryOutcome,
                               !.candidate = r.candidate, !.distance = r.distance,
                               !.statsBefore = stats, !.entriesBefore = entries]
                /\ tally' = IF r.raised THEN tally
                            ELSE [tally EXCEPT ![r.status] = @ + 1]
    /\ nops' = nops + 1
    /\ UNCHANGED <<threads, fingerprints, messages>>
    /\ UNCHANGED <<collExists, semantic_threshold, lastStored, everStored>>

StoreSearchResult(tool, question, context, search_result, search_time) ==
    /\ nops < MaxOps
    /\ \E ef \in EmbedFaults, uf \in CallFaults :
         LET r == Store(collExists, entries, tool, question, context,
                        search_result, search_time, nops, ef, uf)
         IN  /\ (r.upsertOutcome = "none" => uf = "ok")
             /\ (~collExists => uf = "raise")
             /\ (r.entries = entries /\ ~r.ret => search_result = ResultA)
             /\ entries' = r.entries
             /\ stats' = StoreLeavesStats(stats, search_time)
             /\ last' = [NoCall EXCEPT !.op = "store", !.tool = tool,
                            !.question = question, !.context = context,
                            !.ret = r.ret, !.raised = r.raised,
                            !.calls = r.calls, !.embedOutcome = r.embedOutcome,
                            !.upsertOutcome = r.upsertOutcome,
                            !.statsBefore = stats, !.entriesBefore = entries]
             /\ lastStored' =
                  IF r.ret
                  THEN [t \in DOMAIN lastStored \cup {<<tool, question, context>>} |->
                          IF t = <<tool, question, context>>
                          THEN search_result ELSE lastStored[t]]
                  ELSE lastStored
             /\ everStored' = IF r.ret THEN everStored \cup {<<tool, question, context>>}
                              ELSE everStored
    /\ nops' = nops + 1
    /\ UNCHANGED <<threads, fingerprints, messages>>
    /\ UNCHANGED <<collExists, semantic_threshold, tally>>

GetStats ==
    /\ nops < MaxOps
    /\ stats' = GetStatsLeaves(stats)
    /\ last' = [NoCall EXCEPT !.op = "get_stats", !.snapshot = GetStatsSnapshot(stats),
                   !.statsBefore = stats, !.entriesBefore = entries,
                   !.repeated = (last.op = "get_stats"),
                   !.prevSnapshot = IF last.op = "get_stats" THEN last.snapshot
                                    ELSE GetStatsSnapshot(ZeroStats)]
    /\ nops' = nops + 1
    /\ UNCHANGED <<threads, fingerprints, messages>>
    /\ UNCHANGED <<collExists, entries, semantic_threshold, lastStored, everStored, tally>>

ResetStats ==
    /\ nops < MaxOps
    /\ stats' = Reset(stats)
    /\ last' = [NoCall EXCEPT !.op = "reset_stats", !.statsBefore = stats,
                   !.entriesBefore = entries]
    /\ tally' = ZeroTally
    /\ nops' = nops + 1
    /\ UNCHANGED <<threads, fingerprints, messages>>
    /\ UNCHANGED <<collExists, entries, semantic_threshold, lastStored, everStored>>

ClearCache ==
    /\ nops < MaxOps
    /\ \E df \in CallFaults, cf \in CallFaults :
         LET r == Clear(collExists, entries, df, cf)
         IN  /\ (Len(r.calls) = 1 => cf = "ok")
             /\ collExists' = r.exists
             /\ entries' = r.entries
             /\ last' = [NoCall EXCEPT !.op = "clear_cache", !.ret = r.ret,
                            !.raised = r.raised, !.calls = r.calls,
                            !.deleteOutcome = r.deleteOutcome,
                            !.createOutcome = r.createOutcome,
                            !.statsBefore = stats]
             /\ lastStored' = IF Len(r.calls) = 1 THEN lastStored ELSE <<>>
    /\ nops' = nops + 1
    /\ UNCHANGED <<threads, fingerprints, messages>>
    /\ UNCHANGED <<stats, semantic_threshold, everStored, tally>>

Next ==
    \/ \E t \in Triples : GetCachedSearch(t[1], t[2], t[3])
    \/ \E in \in StoreInputs, search_time \in SearchTimes :
         StoreSearchResult(in[1][1], in[1][2], in[1][3], in[2], search_time)
    \/ GetStats
    \/ ResetStats
    \/ ClearCache

Spec == Init /\ [][Next]_vars

----------------------------------------------------------------------------
(* Concurrent requests: each thread runs the flow of the workload script   *)
(* (lookup, and on a falsy result backend search then store) against the   *)
(* one manager. A step is one access to shared state: a call to the Vector *)
(* Store, or one half of a counter's "+= 1", which loads the value and     *)
(* stores the sum as two operations with no lock around them. The time     *)
(* accumulator of a tier is advanced with the store of its counter.        *)

Threads == {1, 2}
ThreadTriples == {<<"jina", "q", "">>, <<"jina", "q", "x|">>}

\* the result the backend search hands to thread t
ResultOf(t) == IF t = 1 THEN ResultA ELSE ResultB

\* position -> the counter whose "+= 1" is loading there or storing there
CounterAt ==
    [ld_total |-> "total_queries", st_total |-> "total_queries",
     ld_exact |-> "exact_hits", st_exact |-> "exact_hits",
     ld_semantic |-> "semantic_hits", st_semantic |-> "semantic_hits",
     ld_miss |-> "misses", st_miss |-> "misses"]

LoadPositions == {"ld_total", "ld_exact", "ld_semantic", "ld_miss"}
StorePositions == {"st_total", "st_exact", "st_semantic", "st_miss"}

\* the position of the store that completes the load at position pc
StoreOf(pc) ==
    CASE pc = "ld_total" -> "st_total"
      [] pc = "ld_exact" -> "st_exact"
      [] pc = "ld_semantic" -> "st_semantic"
      [] pc = "ld_miss" -> "st_miss"

\* the positions after get_cached_search has returned
AfterLookup == {"returned", "upsert", "done"}

InitThreads ==
    /\ collExists = TRUE
    /\ entries = NoEntries
    /\ stats = ZeroStats
    /\ semantic_threshold \in Thresholds
    /\ nops = 0
    /\ last = NoCall
    /\ lastStored = <<>>
    /\ everStored = {}
    /\ tally = ZeroTally
    /\ \E f \in [Threads -> ThreadTriples] :
          threads = [t \in Threads |->
                        [pc |-> "ld_total", reg |-> 0, stale |-> FALSE, triple |-> f[t],
                         doc |-> PyNone, status |-> "", sim |-> NoSim]]
    /\ fingerprints = <<>>
    /\ messages = <<>>

\* the load half of self.stats[counter] += 1: self.stats is evaluated once,
\* here, and the store half writes into the dict object found here
ThreadLoad(t) ==
    /\ threads[t].pc \in LoadPositions
    /\ threads' = [threads EXCEPT ![t].reg = stats[CounterAt[threads[t].pc]],
                                  ![t].stale = FALSE,
                                  ![t].pc = StoreOf(threads[t].pc)]
    /\ UNCHANGED <<fingerprints, messages>>
    /\ UNCHANGED <<collExists, entries, stats, semantic_threshold, nops, last,
                   lastStored, everStored, tally>>

\* the store half of self.stats[counter] += 1, and what follows it up to
\* the next access to shared state; stale: self.stats was rebound to a new
\* dict since the load, and the sum lands in the dict that was dropped
ThreadStore(t) ==
    LET pc == threads[t].pc
        counted == IF threads[t].stale THEN stats
                   ELSE [stats EXCEPT ![CounterAt[pc]] = threads[t].reg + 1]
        attached == SetCacheSimilarity(threads[t].doc, threads[t].sim)
    IN  /\ pc \in StorePositions
        /\ stats' = CASE pc = "st_exact" -> [counted EXCEPT !.total_exact_time = @ + 1]
                      [] pc = "st_semantic" -> [counted EXCEPT !.total_semantic_time = @ + 1]
                      [] OTHER -> counted
        /\ threads' =
             CASE pc = "st_total" -> [threads EXCEPT ![t].pc = "get"]
               [] pc = "st_exact" ->
                    [threads EXCEPT ![t].pc = "returned", ![t].status = "exact_hit"]
               [] pc = "st_semantic" ->
                    IF attached.raised
                    THEN [threads EXCEPT ![t].pc = "ld_miss"]
                    ELSE [threads EXCEPT ![t].pc = "returned", ![t].doc = attached.value,
                                         ![t].status = "semantic_hit"]
               [] pc = "st_miss" ->
                    [threads EXCEPT ![t].pc = "returned", ![t].doc = PyNone,
                                    ![t].status = "miss"]
        /\ UNCHANGED <<fingerprints, messages>>
        /\ UNCHANGED <<collExists, entries, semantic_threshold, nops, last,
                       lastStored, everStored, tally>>

\* TIER 1: collection.get(ids=[cache_key])
ThreadGet(t) ==
    LET tr == threads[t].triple
        t1 == Tier1(collExists, entries, GenerateCacheKey(tr[1], tr[2], tr[3]),
                    "ok", NoCandidate)
    IN  /\ threads[t].pc = "get"
        /\ threads' = IF t1.hit
                      THEN [threads EXCEPT ![t].pc = "ld_exact", ![t].doc = t1.data]
                      ELSE [threads EXCEPT ![t].pc = "query"]
        /\ UNCHANGED <<fingerprints, messages>>
        /\ UNCHANGED <<collExists, entries, stats, semantic_threshold, nops, last,
                       lastStored, everStored, tally>>

\* TIER 2: the embedding, then collection.query(...) and the threshold test
ThreadQuery(t) ==
    LET tr == threads[t].triple
        vector == GenerateEmbedding(tr[2], "ok").vector
    IN  /\ threads[t].pc = "query"
        /\ \E cand \in Candidates(entries, vector, tr[1]) :
              LET semantic_results ==
                      CollectionQuery(collExists, entries, vector, cand, "ok", NoCandidate)
                  similarity == SimilarityOf(semantic_results.distances[1])
                  cached == JsonLoads(semantic_results.documents[1])
              IN  threads' =
                    IF Len(semantic_results.ids) = 0
                    THEN [threads EXCEPT ![t].pc = "ld_miss"]
                    ELSE IF ~AtLeast(similarity, semantic_threshold) \/ cached.raised
                    THEN [threads EXCEPT ![t].pc = "ld_miss"]
                    ELSE [threads EXCEPT ![t].pc = "ld_semantic",
                                         ![t].doc = cached.value, ![t].sim = similarity]
        /\ UNCHANGED <<fingerprints, messages>>
        /\ UNCHANGED <<collExists, entries, stats, semantic_threshold, nops, last,
                       lastStored, everStored, tally>>

\* "if cached_result:" of the workload script: a truthy result ends the
\* request, a falsy one is followed by the backend search
ThreadReturned(t) ==
    /\ threads[t].pc = "returned"
    /\ threads' = IF Truthy(threads[t].doc)
                  THEN [threads EXCEPT ![t].pc = "done"]
                  ELSE [threads EXCEPT ![t].pc = "upsert", ![t].doc = ResultOf(t)]
    /\ UNCHANGED <<fingerprints, messages>>
    /\ UNCHANGED <<collExists, entries, stats, semantic_threshold, nops, last,
                   lastStored, everStored, tally>>

\* store_search_result of the backend's result: the embedding, then the upsert
ThreadUpsert(t) ==
    LET tr == threads[t].triple
        r == Store(collExists, entries, tr[1], tr[2], tr[3], threads[t].doc, 5, nops,
                   "ok", "ok")
    IN  /\ threads[t].pc = "upsert"
        /\ entries' = r.entries
        /\ nops' = nops + 1
        /\ threads' = [threads EXCEPT ![t].pc = "done"]
        /\ UNCHANGED <<fingerprints, messages>>
        /\ UNCHANGED <<collExists, stats, semantic_threshold, last, lastStored,
                       everStored, tally>>

NextThreads ==
    \E t \in Threads :
        \/ ThreadLoad(t)
        \/ ThreadStore(t)
        \/ ThreadGet(t)
        \/ ThreadQuery(t)
        \/ ThreadReturned(t)
        \/ ThreadUpsert(t)

SpecThreads == InitThreads /\ [][NextThreads]_vars

----------------------------------------------------------------------------
(* reset_stats called by another thread while requests are served one      *)
(* after the other: no two lookups overlap, so no counter update is lost   *)
(* to a second lookup, and the reset may run between any two steps.        *)

\* no other request is between its first and its last step
Alone(t) == \A u \in Threads \ {t} : threads[u].pc \in {"ld_total", "done"}

\* self.stats = {...}: one assignment that binds the attribute to a new
\* dict of zeros; an increment that has loaded and not yet stored keeps
\* the old dict
ResetStatsConcurrently ==
    /\ stats # ZeroStats \/ \E t \in Threads : threads[t].pc \in StorePositions
    /\ stats' = Reset(stats)
    /\ threads' = [t \in Threads |->
                      IF threads[t].pc \in StorePositions
                      THEN [threads[t] EXCEPT !.stale = TRUE]
                      ELSE threads[t]]
    /\ UNCHANGED <<fingerprints, messages>>
    /\ UNCHANGED <<collExists, entries, semantic_threshold, nops, last,
                   lastStored, everStored, tally>>

NextReset ==
    \/ \E t \in Threads :
          /\ Alone(t)
          /\ \/ ThreadLoad(t)
             \/ ThreadStore(t)
             \/ ThreadGet(t)
             \/ ThreadQuery(t)
             \/ ThreadReturned(t)
             \/ ThreadUpsert(t)
    \/ ResetStatsConcurrently

SpecReset == InitThreads /\ [][NextReset]_vars

----------------------------------------------------------------------------
(* _generate_cache_key on its own: calls with arguments drawn from strings *)
(* with and without the separator, against a manager in its initial state. *)

MaxKeyCalls == 2

KeyParts == {"", "a", "|", "a|"}

InitKey ==
    /\ collExists = TRUE
    /\ entries = NoEntries
    /\ stats = ZeroStats
    /\ semantic_threshold \in Thresholds
    /\ nops = 0
    /\ last = NoCall
    /\ lastStored = <<>>
    /\ everStored = {}
    /\ tally = ZeroTally
    /\ threads = NoThreads
    /\ fingerprints = <<>>
    /\ messages = <<>>

GenerateCacheKeyCall(tool, question, context) ==
    /\ Len(fingerprints) < MaxKeyCalls
    /\ fingerprints' = Append(fingerprints,
                              [tool |-> tool, question |-> question, context |-> context,
                               key |-> GenerateCacheKey(tool, question, context)])
    /\ UNCHANGED <<collExists, entries, stats, semantic_threshold, nops, last,
                   lastStored, everStored, tally, threads, messages>>

NextKey ==
    \E tool \in KeyParts, question \in KeyParts, context \in KeyParts :
        GenerateCacheKeyCall(tool, question, context)

SpecKey == InitKey /\ [][NextKey]_vars

----------------------------------------------------------------------------
(* The /query endpoint (api/v1/endpoints/rag.py): each request runs to     *)
(* completion. The handler holds no SemanticCacheManager and calls none of *)
(* its methods.                                                            *)

\* the requests of one run
MaxRequests == 2

Questions == {"q", "q|x"}
McpTools == {"jina", "tavily"}
\* "" stands for a request without target_url (None)
TargetUrls == {"", "https://x.com"}
SessionIds == {"s1", "s2"}

\* the answer the LLM generates for a question
AnswerOf(question) == "answer to " \o question

\* whole seconds gone by between two inserts: CURRENT_TIMESTAMP has a
\* granularity of one second
Ticks == {0, 1}

\* the timestamp of the newest row
Clock(msgs) == IF msgs = <<>> THEN 0 ELSE msgs[Len(msgs)].timestamp

\* ChatMemory.add_message: INSERT of one row; the id (AUTOINCREMENT) is the
\* position in the sequence, the timestamp defaults to CURRENT_TIMESTAMP
AddMessage(msgs, session_id, role, content, tick) ==
    Append(msgs, [session_id |-> session_id, role |-> role, content |-> content,
                  timestamp |-> Clock(msgs) + tick])

\* the first call of a request that raises
QueryFailures ==
    {"none", "config", "search", "load_llm", "get_history", "generate",
     "add_user", "add_assistant"}

\* the calls of one request, in order, up to the first that raises
QueryCalls(failed) ==
    CASE failed = "config" -> <<"config">>
      [] failed = "search" -> <<"config", "search">>
      [] failed = "load_llm" -> <<"config", "search", "load_llm">>
      [] failed = "get_history" -> <<"config", "search", "load_llm", "get_history">>
      [] failed = "generate" ->
            <<"config", "search", "load_llm", "get_history", "generate">>
      [] failed = "add_user" ->
            <<"config", "search", "load_llm", "get_history", "generate", "add_message">>
      [] OTHER ->
            <<"config", "search", "load_llm", "get_history", "generate", "add_message",
              "add_message">>

\* a handler that saves the user's question before it asks the LLM
MessagesAfterEagerSave(msgs, session_id, question, failed, tick1, tick2) ==
    IF failed \in {"config", "search", "load_llm", "get_history", "add_user"}
    THEN msgs
    ELSE IF failed \in {"generate", "add_assistant"}
    THEN AddMessage(msgs, session_id, "user", question, tick1)
    ELSE AddMessage(AddMessage(msgs, session_id, "user", question, tick1),
                    session_id, "assistant", AnswerOf(question), tick2)

\* the table after a request: "7. Save to Memory" comes after the
\* generation, one committed insert per message
MessagesAfter(msgs, session_id, question, failed, tick1, tick2) ==
    IF failed \in {"config", "search", "load_llm", "get_history", "generate", "add_user"}
    THEN msgs
    ELSE IF failed = "add_assistant"
    THEN AddMessage(msgs, session_id, "user", question, tick1)
    ELSE AddMessage(AddMessage(msgs, session_id, "user", question, tick1),
                    session_id, "assistant", AnswerOf(question), tick2)

InitEndpoint ==
    /\ collExists = TRUE
    /\ entries = NoEntries
    /\ stats = ZeroStats
    /\ semantic_threshold \in Thresholds
    /\ nops = 0
    /\ last = NoCall
    /\ lastStored = <<>>
    /\ everStored = {}
    /\ tally = ZeroTally
    /\ threads = NoThreads
    /\ fingerprints = <<>>
    /\ messages = <<>>

\* query(request): configuration, backend search, LLM generation, then the
\* two rows of the turn; any exception ends the request with HTTP 500
Query(question, mcp_tool, target_url, session_id) ==
    /\ nops < MaxRequests
    /\ \E failed \in QueryFailures, tick1 \in Ticks, tick2 \in Ticks :
         LET after == MessagesAfter(messages, session_id, question, failed, tick1, tick2)
         IN  /\ (Len(after) = Len(messages) => tick1 = 0)
             /\ (Len(after) <= Len(messages) + 1 => tick2 = 0)
             /\ last' = [NoCall EXCEPT !.op = "query", !.tool = mcp_tool,
                            !.question = question, !.context = target_url,
                            !.session = session_id,
                            !.calls = QueryCalls(failed), !.failed = failed,
                            !.raised = (failed # "none"), !.ret = (failed = "none"),
                            !.status = IF failed = "none" THEN "200" ELSE "500",
                            !.messagesBefore = messages]
             /\ messages' = after
    /\ nops' = nops + 1
    /\ UNCHANGED <<collExists, entries, stats, semantic_threshold, lastStored,
                   everStored, tally, threads, fingerprints>>

NextEndpoint ==
    \E question \in Questions, mcp_tool \in McpTools, target_url \in TargetUrls,
       session_id \in SessionIds :
        Query(question, mcp_tool, target_url, session_id)

SpecEndpoint == InitEndpoint /\ [][NextEndpoint]_vars

----------------------------------------------------------------------------
(* ChatMemory (core/memory.py) on its own: rows are added one at a time,   *)
(* and the history of a session is read with a limit.                      *)

\* the rows of one run
MaxMessages == 3

Roles == {"user", "assistant"}
Limits == {1, 2, 6}

\* WHERE session_id = ?: the ids of the session's rows
RowsOf(msgs, session_id) == {i \in DOMAIN msgs : msgs[i].session_id = session_id}

\* ORDER BY timestamp DESC over the rows S: every order of the ids in which
\* no row comes before a row with a later timestamp; the order of rows with
\* equal timestamps is left to the database
RECURSIVE OrderedDesc(_, _)
OrderedDesc(msgs, S) ==
    IF S = {} THEN {<<>>}
    ELSE LET newest == {i \in S : \A j \in S : msgs[i].timestamp >= msgs[j].timestamp}
         IN  UNION {{<<i>> \o o : o \in OrderedDesc(msgs, S \ {i})} : i \in newest}

\* history[::-1]
Reverse(seq) == [i \in 1..Len(seq) |-> seq[Len(seq) + 1 - i]]

\* get_history: the first "limit" rows of the order, as role and content,
\* reversed
GetHistory(msgs, limit, order) ==
    LET n == IF limit < Len(order) THEN limit ELSE Len(order)
        rows == SubSeq(order, 1, n)
    IN  Reverse([i \in 1..n |-> [role |-> msgs[rows[i]].role,
                                 content |-> msgs[rows[i]].content]])

AddMessageCall(session_id, role, content) ==
    /\ Len(messages) < MaxMessages
    /\ \E tick \in Ticks : messages' = AddMessage(messages, session_id, role, content, tick)
    /\ last' = [NoCall EXCEPT !.op = "add_message", !.session = session_id,
                   !.messagesBefore = messages]
    /\ UNCHANGED <<collExists, entries, stats, semantic_threshold, nops, lastStored,
                   everStored, tally, threads, fingerprints>>

GetHistoryCall(session_id, limit) ==
    /\ \E order \in OrderedDesc(messages, RowsOf(messages, session_id)) :
          last' = [NoCall EXCEPT !.op = "get_history", !.session = session_id,
                      !.limit = limit,
                      !.history = GetHistory(messages, limit, order),
                      !.messagesBefore = messages]
    /\ UNCHANGED <<collExists, entries, stats, semantic_threshold, nops, lastStored,
                   everStored, tally, threads, fingerprints, messages>>

NextMemory ==
    \/ \E session_id \in SessionIds, role \in Roles, content \in Questions :
          AddMessageCall(session_id, role, content)
    \/ \E session_id \in SessionIds, limit \in Limits :
          GetHistoryCall(session_id, limit)

SpecMemory == InitEndpoint /\ [][NextMemory]_vars

----------------------------------------------------------------------------
(* Properties *)

\* the triple of the last call
LastTriple == <<last.tool, last.question, last.context>>

\* the cache key of the last call
LastKey == GenerateCacheKey(last.tool, last.question, last.context)

\* the payload without the reserved "_cache_similarity" member
WithoutSimilarity(v) == [v EXCEPT !.keys = @ \ {"_cache_similarity"}, !.sim = NoSim]

\* C1: a lookup against an empty collection returns "miss"; once a store of
\* a triple has returned True and the collection has not been deleted since,
\* every lookup of that triple whose primary-key get is answered returns
\* "exact_hit", whatever calls came in between.
C1_MissThenStoreThenHit ==
    last.op = "lookup" =>
        /\ (entries = NoEntries => last.status = "miss")
        /\ (last.getOutcome = "ok" /\ LastTriple \in DOMAIN lastStored
              => last.status = "exact_hit")

\* a cold lookup missed, the triple was stored, the next lookup hit exactly
C1_Witness ==
    /\ last.op = "lookup" /\ last.status = "exact_hit" /\ last.getOutcome = "ok"
    /\ LastTriple \in DOMAIN lastStored
    /\ nops = 3 /\ tally.miss = 1 /\ tally.exact_hit = 1
    /\ Cardinality(DOMAIN entries) = 1
    /\ \A k \in DOMAIN entries : entries[k].metadata.cached_at = 1

\* C2: an exact hit returns the result of the most recent successful store
\* of the same triple, with no member added or removed.
C2_ExactHitRoundTrip ==
    (last.op = "lookup" /\ last.status = "exact_hit") =>
        /\ LastTriple \in DOMAIN lastStored
        /\ last.doc = lastStored[LastTriple]

\* C3: a semantic hit for tool t returns a document stored under tool t, and
\* a lookup under a tool nothing was stored under is a miss.
C3_ToolIsolation ==
    last.op = "lookup" =>
        /\ (last.status = "semantic_hit" =>
              \E t \in DOMAIN lastStored :
                 /\ t[1] = last.tool
                 /\ WithoutSimilarity(last.doc) = lastStored[t])
        /\ ((\A t \in DOMAIN lastStored : t[1] # last.tool) =>
              last.status = "miss")

\* the question is stored under jina only and looked up under tavily: the
\* query is answered and the result is a miss
C3_Witness ==
    /\ last.op = "lookup" /\ last.tool = "tavily" /\ last.status = "miss"
    /\ last.getOutcome = "ok" /\ last.embedOutcome = "ok" /\ last.queryOutcome = "ok"
    /\ <<"jina", last.question, last.context>> \in DOMAIN lastStored
    /\ \A t \in DOMAIN lastStored : t[1] = "jina"

\* C4: when Tier 1 does not hit and the query answers with the nearest
\* same-tool candidate at distance d, the lookup returns "semantic_hit" if
\* and only if 1/(1+d) >= semantic_threshold.
C4_ThresholdBoundary ==
    (/\ last.op = "lookup"
     /\ last.calls = <<"get", "embed", "query">>
     /\ last.queryOutcome = "ok"
     /\ last.candidate # NoCandidate) =>
        (last.status = "semantic_hit"
            <=> AtLeast(SimilarityOf(last.distance), semantic_threshold))

\* C5: the counters partition the lookups: their sum is total_queries in
\* every state between calls, and get_stats reports, per status, the number
\* of lookups that returned it since construction or the last reset.
C5_StatisticsAccuracy ==
    /\ stats.exact_hits + stats.semantic_hits + stats.misses = stats.total_queries
    /\ last.op = "get_stats" =>
         /\ last.snapshot.total_queries = tally.exact_hit + tally.semantic_hit + tally.miss
         /\ last.snapshot.exact_hits = tally.exact_hit
         /\ last.snapshot.semantic_hits = tally.semantic_hit
         /\ last.snapshot.misses = tally.miss

\* C6: when the primary-key get raises or hands back a document that does
\* not deserialize, the lookup does not raise and counts no exact hit; it
\* calls the Embedding Provider, then (given a vector) the nearest-neighbour
\* query, and a "semantic_hit" it returns is a same-tool candidate at or
\* above the threshold.
C6_Tier1FailureDegrades ==
    (last.op = "lookup" /\ last.getOutcome \in {"raise", "malformed"}) =>
        /\ ~last.raised
        /\ last.status \in {"semantic_hit", "miss"}
        /\ stats.exact_hits = last.statsBefore.exact_hits
        /\ stats.total_exact_time = last.statsBefore.total_exact_time
        /\ Len(last.calls) >= 2 /\ SubSeq(last.calls, 1, 2) = <<"get", "embed">>
        /\ (last.embedOutcome = "ok" => last.calls = <<"get", "embed", "query">>)
        /\ (last.status = "semantic_hit" =>
              /\ last.candidate \in DOMAIN entries
              /\ entries[last.candidate].metadata.tool = last.tool
              /\ AtLeast(SimilarityOf(last.distance), semantic_threshold))

\* the record under the key came back malformed, and Tier 2 answered with
\* the record of the same question under another context
C6_Witness ==
    /\ last.op = "lookup" /\ last.getOutcome = "malformed"
    /\ last.status = "semantic_hit"
    /\ last.candidate \in DOMAIN entries /\ last.candidate # LastKey

\* C7: when Tier 1 does not hit and the Embedding Provider fails, the lookup
\* returns (None, "miss") without raising, adds one to misses and to no other
\* hit counter, and makes no nearest-neighbour query.
C7_EmbeddingFailureIsMiss ==
    (last.op = "lookup" /\ last.embedOutcome = "raise") =>
        /\ ~last.raised
        /\ last.doc = PyNone /\ last.status = "miss"
        /\ stats.misses = last.statsBefore.misses + 1
        /\ stats.total_queries = last.statsBefore.total_queries + 1
        /\ stats.exact_hits = last.statsBefore.exact_hits
        /\ stats.semantic_hits = last.statsBefore.semantic_hits
        /\ last.calls = <<"get", "embed">>

\* the embedding failed although an entry of the same tool and question,
\* under another context, was there to be found
C7_Witness ==
    /\ last.op = "lookup" /\ last.embedOutcome = "raise" /\ last.status = "miss"
    /\ last.getOutcome = "ok" /\ collExists
    /\ \E k \in SameTool(entries, last.tool) :
          entries[k].embedding = EmbeddingOf(last.question)

\* C8: store_search_result does not raise; when the embedding or the upsert
\* fails it returns False and the entries are what they were; it returns True
\* only with the entry written under the triple's key.
C8_StoreBestEffort ==
    last.op = "store" =>
        /\ ~last.raised
        /\ ((last.embedOutcome = "raise" \/ last.upsertOutcome = "raise") => ~last.ret)
        /\ (~last.ret => entries = last.entriesBefore)
        /\ (last.ret =>
              /\ LastKey \in DOMAIN entries
              /\ entries[LastKey].document = JsonDumps(lastStored[LastTriple])
              /\ entries[LastKey].embedding = EmbeddingOf(last.question)
              /\ entries[LastKey].metadata.tool = last.tool
              /\ \A k \in DOMAIN last.entriesBefore \ {LastKey} :
                    k \in DOMAIN entries /\ entries[k] = last.entriesBefore[k])

\* a store failed at the upsert over a collection that holds entries
C8_Witness ==
    /\ last.op = "store" /\ ~last.ret
    /\ last.embedOutcome = "ok" /\ last.upsertOutcome = "raise"
    /\ collExists /\ entries # NoEntries

\* C9: a lookup does not raise, its status is one of the three tags, and the
\* returned document is None exactly when the status is "miss".
C9_ThreeOutcomes ==
    last.op = "lookup" =>
        /\ ~last.raised
        /\ last.status \in {"exact_hit", "semantic_hit", "miss"}
        /\ (last.doc = PyNone <=> last.status = "miss")

\* C10: a clear_cache that returns True leaves an empty, usable collection
\* and the statistics as they were; a lookup of a triple stored before the
\* clear, with nothing stored since, is a miss.
C10_ClearRemovesEverything ==
    /\ (last.op = "clear_cache" /\ last.ret) =>
          /\ entries = NoEntries /\ collExists
          /\ stats = last.statsBefore
    /\ (/\ last.op = "lookup" /\ collExists
        /\ LastTriple \in everStored /\ lastStored = <<>>) =>
          /\ last.status = "miss" /\ last.doc = PyNone

\* a triple was stored, the cache cleared, and the triple looked up again
C10_Witness ==
    /\ last.op = "lookup" /\ last.status = "miss"
    /\ last.getOutcome = "ok" /\ last.embedOutcome = "ok" /\ last.queryOutcome = "ok"
    /\ LastTriple \in everStored
    /\ lastStored = <<>> /\ collExists /\ nops = 3

\* C11: clear_cache does not raise and returns False when a call of it
\* fails; a clear_cache during which the Vector Store answers every call,
\* made after a clear that failed between the delete and the recreate,
\* returns True and leaves a bound, empty collection.
C11_FailedClearRecoverable ==
    last.op = "clear_cache" =>
        /\ ~last.raised
        /\ ("raise" \in {last.deleteOutcome, last.createOutcome} => ~last.ret)
        /\ ("raise" \notin {last.deleteOutcome, last.createOutcome} =>
              last.ret /\ collExists /\ entries = NoEntries)

\* C12: after reset_stats every counter and accumulator is zero and the
\* entries are what they were; the lookups made since the last reset (or
\* since construction) number total_queries; a stored triple that hit
\* exactly before a reset hits exactly after it.
C12_ResetIsStatsOnly ==
    /\ last.op = "reset_stats" =>
          /\ stats = ZeroStats
          /\ entries = last.entriesBefore
    /\ stats.total_queries = tally.exact_hit + tally.semantic_hit + tally.miss
    /\ (/\ last.op = "lookup" /\ stats.total_queries = 1
        /\ last.getOutcome = "ok" /\ LastTriple \in DOMAIN lastStored) =>
          last.status = "exact_hit"

\* a reset after an exact hit, over a collection that holds the entry
C12_Witness ==
    /\ last.op = "reset_stats"
    /\ last.statsBefore.exact_hits = 1 /\ last.statsBefore.total_exact_time > 0
    /\ entries # NoEntries /\ stats = ZeroStats

\* the entries without their cached_at timestamps
IgnoringCachedAt(ents) ==
    [k \in DOMAIN ents |-> [ents[k] EXCEPT !.metadata.cached_at = 0]]

\* the last call stored a triple that the collection already held
StoredAgain ==
    /\ last.op = "store" /\ last.ret
    /\ LastKey \in DOMAIN last.entriesBefore
    /\ last.entriesBefore[LastKey].metadata.tool = last.tool
    /\ last.entriesBefore[LastKey].metadata.question = Truncate(last.question)
    /\ last.entriesBefore[LastKey].metadata.context = Truncate(last.context)

\* C13: a second successful store of a triple leaves the ids as they were,
\* with one entry under the triple's key holding the document of the later
\* store; when that document is the one already held, the entries are the
\* same up to cached_at.
C13_StoreIsIdempotentUpsert ==
    StoredAgain =>
        /\ DOMAIN entries = DOMAIN last.entriesBefore
        /\ entries[LastKey].document = JsonDumps(lastStored[LastTriple])
        /\ \A k \in DOMAIN entries \ {LastKey} : entries[k] = last.entriesBefore[k]
        /\ (last.entriesBefore[LastKey].document = JsonDumps(lastStored[LastTriple]) =>
              IgnoringCachedAt(entries) = IgnoringCachedAt(last.entriesBefore))

\* a triple stored twice with different results, beside another entry
C13_Witness ==
    /\ StoredAgain
    /\ last.entriesBefore[LastKey].document # entries[LastKey].document
    /\ Cardinality(DOMAIN entries) = 2

\* a triple stored twice with the same result at different times
C13_WitnessSame ==
    /\ StoredAgain
    /\ last.entriesBefore[LastKey].document = entries[LastKey].document
    /\ last.entriesBefore[LastKey].metadata.cached_at # entries[LastKey].metadata.cached_at

\* C14: when the lookups of all K threads have returned, total_queries has
\* grown by K and so has exact_hits + semantic_hits + misses.
C14_NoLostCounterUpdates ==
    (\A t \in Threads : threads[t].pc \in AfterLookup) =>
        /\ stats.total_queries = Cardinality(Threads)
        /\ stats.exact_hits + stats.semantic_hits + stats.misses = Cardinality(Threads)

\* both threads ran the whole flow for one triple, novel when they started
BothDoneSameTriple ==
    /\ \A t \in Threads : threads[t].pc = "done"
    /\ \A t1, t2 \in Threads : threads[t1].triple = threads[t2].triple

\* C15: when two threads have run lookup, backend search and store for the
\* same novel triple, the collection holds one entry, under the triple's
\* key, whose document is the result stored by one of the threads whose
\* lookup missed, and a lookup of the triple then returns "exact_hit".
C15_RedundantMissesHarmless ==
    BothDoneSameTriple =>
        LET tr == threads[1].triple
            key == GenerateCacheKey(tr[1], tr[2], tr[3])
        IN  /\ DOMAIN entries = {key}
            /\ \E t \in Threads :
                  /\ threads[t].status = "miss"
                  /\ entries[key].document = JsonDumps(ResultOf(t))
            /\ Lookup(stats, collExists, entries, semantic_threshold, tr[1], tr[2], tr[3],
                      "ok", "ok", "ok", NoCandidate, key, 1).status = "exact_hit"

\* the interleaving in which both lookups missed and both threads stored
C15_Witness ==
    /\ BothDoneSameTriple
    /\ \A t \in Threads : threads[t].status = "miss"
    /\ nops = 2

\* the quotients a and b are the same number
SameQuotient(a, b) == a[1] * b[2] = b[1] * a[2]

\* C16: get_stats reports hit_rate = (exact_hits + semantic_hits) /
\* total_queries * 100, each tier's average = its time sum / its hit count,
\* 0 for each when its divisor is 0, and a hit_rate within [0, 100].
C16_HitRateAndAverages ==
    last.op = "get_stats" =>
        LET st == last.statsBefore
            snap == last.snapshot
        IN  /\ snap.hit_rate[2] > 0
            /\ snap.avg_exact_retrieval_time[2] > 0
            /\ snap.avg_semantic_retrieval_time[2] > 0
            /\ IF st.total_queries > 0
               THEN SameQuotient(snap.hit_rate,
                                 <<(st.exact_hits + st.semantic_hits) * 100,
                                   st.total_queries>>)
               ELSE snap.hit_rate[1] = 0
            /\ IF st.exact_hits > 0
               THEN SameQuotient(snap.avg_exact_retrieval_time,
                                 <<st.total_exact_time, st.exact_hits>>)
               ELSE snap.avg_exact_retrieval_time[1] = 0
            /\ IF st.semantic_hits > 0
               THEN SameQuotient(snap.avg_semantic_retrieval_time,
                                 <<st.total_semantic_time, st.semantic_hits>>)
               ELSE snap.avg_semantic_retrieval_time[1] = 0
            /\ 0 <= snap.hit_rate[1] /\ snap.hit_rate[1] <= 100 * snap.hit_rate[2]

\* get_stats after a store and a semantic hit: a hit rate of 100 and a
\* semantic average above 0
C16_Witness ==
    /\ last.op = "get_stats"
    /\ last.statsBefore.total_queries > 0 /\ last.statsBefore.semantic_hits > 0
    /\ last.statsBefore.exact_hits = 0
    /\ SameQuotient(last.snapshot.hit_rate, <<100, 1>>)
    /\ last.snapshot.avg_semantic_retrieval_time[1] > 0

\* C17: get_stats leaves the counters, the accumulators and the entries as
\* they were, and a get_stats that directly follows a get_stats returns the
\* same snapshot.
C17_GetStatsReadOnly ==
    last.op = "get_stats" =>
        /\ stats = last.statsBefore
        /\ entries = last.entriesBefore
        /\ (last.repeated => last.snapshot = last.prevSnapshot)

\* two get_stats in a row after a lookup
C17_Witness ==
    /\ last.op = "get_stats" /\ last.repeated
    /\ stats.total_queries = 1 /\ last.snapshot.total_queries = 1

\* the number of arguments in which two calls differ
Differences(c1, c2) ==
    (IF c1.tool # c2.tool THEN 1 ELSE 0) + (IF c1.question # c2.question THEN 1 ELSE 0)
        + (IF c1.context # c2.context THEN 1 ELSE 0)

\* C18: two calls of _generate_cache_key with the same arguments return the
\* same key, whenever they are made, and two calls that differ in exactly
\* one of tool, question and context return different keys.
C18_FingerprintDeterminismSensitivity ==
    \A i, j \in DOMAIN fingerprints :
        /\ Differences(fingerprints[i], fingerprints[j]) = 0 =>
              fingerprints[i].key = fingerprints[j].key
        /\ Differences(fingerprints[i], fingerprints[j]) = 1 =>
              fingerprints[i].key # fingerprints[j].key

\* two calls that differ in the context only, by the separator itself
C18_Witness ==
    /\ Len(fingerprints) = 2
    /\ fingerprints[1].tool = "a" /\ fingerprints[2].tool = "a"
    /\ fingerprints[1].question = "a|" /\ fingerprints[2].question = "a|"
    /\ fingerprints[1].context = "" /\ fingerprints[2].context = "|"
    /\ fingerprints[1].key # fingerprints[2].key

\* the positions of a call in the trace of the last request
Positions(call) == {i \in DOMAIN last.calls : last.calls[i] = call}

\* C19: a request that searches the backend has looked the cache up before
\* and got "miss"; a search that succeeded is followed by a cache store
\* before the LLM generates.
C19_BackendSearchOnlyOnMiss ==
    last.op = "query" =>
        \A i \in Positions("search") :
            /\ \E j \in Positions("lookup") : j < i /\ last.status = "miss"
            /\ \A g \in Positions("generate") :
                  \E k \in Positions("store") : i < k /\ k < g

\* C20: a lookup adds one to total_queries and calls, in this order, the
\* primary-key get, the Embedding Provider and the nearest-neighbour query,
\* stopping after the get when it finds the document; a lookup that
\* returns "exact_hit" has called neither the Embedding Provider nor the
\* nearest-neighbour query.
C20_TierOrder ==
    last.op = "lookup" =>
        /\ stats.total_queries = last.statsBefore.total_queries + 1
        /\ last.calls \in {<<"get">>, <<"get", "embed">>, <<"get", "embed", "query">>}
        /\ (last.status = "exact_hit" =>
              /\ last.calls = <<"get">>
              /\ last.embedOutcome = "none" /\ last.queryOutcome = "none")
        /\ (last.getOutcome = "ok" /\ LastKey \in DOMAIN entries =>
              last.status = "exact_hit")
        /\ (last.status # "exact_hit" => Len(last.calls) >= 2)

\* an exact hit by the get alone, with a second entry of the same question
\* in reach of Tier 2
C20_Witness ==
    /\ last.op = "lookup" /\ last.status = "exact_hit" /\ last.calls = <<"get">>
    /\ \E k \in SameTool(entries, last.tool) \ {LastKey} :
          entries[k].embedding = EmbeddingOf(last.question)

\* no external call appears twice in the trace of the last call
NoCallRepeated ==
    \A i, j \in DOMAIN last.calls : last.calls[i] = last.calls[j] => i = j

\* C21 as stated: a lookup or a store makes at most two external calls
\* (Vector Store and Embedding Provider together) and repeats none.
C21_AtMostTwoRoundTrips ==
    last.op \in {"lookup", "store"} => Len(last.calls) <= 2 /\ NoCallRepeated

\* C21, amended: a lookup makes at most three external calls (the
\* primary-key get, the embedding request, the nearest-neighbour query, each
\* at most once and in this order), a store at most two (the embedding
\* request, then the upsert); a call that failed is not made again, and a
\* failed embedding request ends the external calls of the operation.
C21_BoundedExternalCalls ==
    /\ last.op = "lookup" =>
          /\ last.calls \in {<<"get">>, <<"get", "embed">>, <<"get", "embed", "query">>}
          /\ (last.embedOutcome = "raise" => last.calls = <<"get", "embed">>)
    /\ last.op = "store" =>
          /\ last.calls \in {<<"embed">>, <<"embed", "upsert">>}
          /\ (last.embedOutcome = "raise" => last.calls = <<"embed">>)
    /\ last.op \in {"lookup", "store"} => NoCallRepeated

\* a lookup whose three external calls were made, the first and the last of
\* them failing
C21_Witness ==
    /\ last.op = "lookup" /\ last.calls = <<"get", "embed", "query">>
    /\ last.getOutcome = "raise" /\ last.queryOutcome = "raise"

\* a store whose embedding request failed
C21_WitnessStore ==
    last.op = "store" /\ last.embedOutcome = "raise" /\ last.calls = <<"embed">>

\* the entries whose metadata names the tool of the last call
OfLastTool == {k \in DOMAIN entries : entries[k].metadata.tool = last.tool}

\* the last call is a lookup whose nearest-neighbour query was answered
QueryAnswered ==
    /\ last.op = "lookup" /\ last.calls = <<"get", "embed", "query">>
    /\ last.queryOutcome # "raise"

\* C22: on the Tier-2 path the one candidate is an entry of the requested
\* tool at minimum distance among the entries of that tool (none when the
\* tool has no entry, whatever other tools hold); a candidate below the
\* threshold gives "miss", and a semantic hit returns the candidate's
\* document.
C22_SingleNearestNeighbour ==
    QueryAnswered =>
        LET v == EmbeddingOf(last.question) IN
        /\ OfLastTool = {} => last.candidate = NoCandidate /\ last.status = "miss"
        /\ OfLastTool # {} =>
              /\ last.candidate \in OfLastTool
              /\ last.distance = Distance(entries[last.candidate].embedding, v)
              /\ \A k \in OfLastTool :
                    last.distance <= Distance(entries[k].embedding, v)
              /\ (~AtLeast(SimilarityOf(last.distance), semantic_threshold) =>
                    last.status = "miss" /\ last.doc = PyNone)
              /\ (last.status = "semantic_hit" =>
                    /\ AtLeast(SimilarityOf(last.distance), semantic_threshold)
                    /\ WithoutSimilarity(last.doc) =
                          JsonLoads(entries[last.candidate].document).value)

\* a miss on a candidate of the tool below the threshold while another
\* tool holds an entry at distance 0
C22_Witness ==
    /\ QueryAnswered /\ last.status = "miss" /\ last.candidate \in OfLastTool
    /\ last.distance = 1
    /\ \E k \in DOMAIN entries \ OfLastTool :
          Distance(entries[k].embedding, EmbeddingOf(last.question)) = 0

\* a semantic hit on the nearer of two entries of the tool
C22_WitnessHit ==
    /\ QueryAnswered /\ last.status = "semantic_hit" /\ last.distance = 0
    /\ \E k \in OfLastTool :
          Distance(entries[k].embedding, EmbeddingOf(last.question)) = 1

\* every external call the last lookup made was answered, with a document
\* that parses
LookupUnfaulted ==
    /\ last.op = "lookup" /\ last.getOutcome = "ok"
    /\ last.embedOutcome \in {"ok", "none"} /\ last.queryOutcome \in {"ok", "none"}

\* the triples stored since the last clear that share tool and question
\* with the last call and differ from it in the context
OtherContexts ==
    {t \in DOMAIN lastStored :
        t[1] = last.tool /\ t[2] = last.question /\ t[3] # last.context}

\* C23: a lookup of a triple that was not stored, while the same tool and
\* question were stored under another context, returns "semantic_hit" at
\* distance 0 (similarity 1) carrying a document stored under such a
\* context.
C23_ContextNotPartOfEligibility ==
    (LookupUnfaulted /\ LastTriple \notin DOMAIN lastStored /\ OtherContexts # {}) =>
        /\ last.status = "semantic_hit"
        /\ last.distance = 0
        /\ last.doc.sim = <<1, 1>>
        /\ \E t \in OtherContexts : WithoutSimilarity(last.doc) = lastStored[t]

\* the case of C23 with its expected outcome
C23_Reached ==
    /\ LookupUnfaulted /\ LastTriple \notin DOMAIN lastStored /\ OtherContexts # {}
    /\ last.status = "semantic_hit" /\ last.distance = 0

\* C24: a lookup, whatever it returns, leaves every stored entry as it was
\* (id, document, embedding, metadata); the document an exact hit returns
\* is the stored one, without a _cache_similarity field, also after a
\* semantic hit on the same entry.
C24_LookupLeavesEntries ==
    last.op = "lookup" =>
        /\ entries = last.entriesBefore
        /\ (last.status = "exact_hit" =>
              /\ last.doc = JsonLoads(entries[LastKey].document).value
              /\ "_cache_similarity" \notin last.doc.keys
              /\ last.doc.sim = NoSim)

\* an exact hit on the only entry of the collection after a semantic hit
\* on it
C24_Witness ==
    /\ last.op = "lookup" /\ last.status = "exact_hit"
    /\ tally.semantic_hit >= 1
    /\ DOMAIN entries = {LastKey}
    /\ last.doc = ResultA

\* C25: a lookup, a store, a get_stats or a reset_stats removes no key from
\* the collection, and a store leaves the entry under every key but its
\* own as it was; so by induction a key stays present along any sequence
\* of calls without clear_cache.
C25_EntriesPersistUntilClear ==
    last.op \in {"lookup", "store", "get_stats", "reset_stats"} =>
        /\ DOMAIN last.entriesBefore \subseteq DOMAIN entries
        /\ \A k \in DOMAIN last.entriesBefore :
              (last.op = "store" /\ k = LastKey) \/ entries[k] = last.entriesBefore[k]

\* a store that wrote its entry beside an older entry under another key
C25_Witness ==
    /\ last.op = "store" /\ last.ret
    /\ LastKey \notin DOMAIN last.entriesBefore
    /\ \E k \in DOMAIN last.entriesBefore : k # LastKey /\ k \in DOMAIN entries

\* C26: a lookup that returns "exact_hit" was preceded by a successful
\* store of exactly its own (tool, question, context), and the entry it
\* read was written by a store of that triple.
C26_ExactHitsNeverCrossTriples ==
    (last.op = "lookup" /\ last.status = "exact_hit") =>
        /\ LastTriple \in everStored
        /\ entries[LastKey].metadata.tool = last.tool
        /\ entries[LastKey].metadata.question = Truncate(last.question)
        /\ entries[LastKey].metadata.context = Truncate(last.context)

\* C27: a store, returning True or False, leaves the four counters and the
\* three time accumulators as they were.
C27_StoreLeavesStatistics ==
    last.op = "store" =>
        /\ stats = last.statsBefore
        /\ \A c \in {"total_queries", "exact_hits", "semantic_hits", "misses",
                     "total_saved_time", "total_exact_time", "total_semantic_time"} :
              stats[c] = last.statsBefore[c]

\* a store that returned True with counters and an accumulator above zero
C27_Witness ==
    /\ last.op = "store" /\ last.ret
    /\ stats.total_queries >= 1 /\ stats.exact_hits >= 1 /\ stats.total_exact_time >= 1

\* a store that returned False after a lookup was counted
C27_WitnessFalse ==
    /\ last.op = "store" /\ ~last.ret /\ stats.total_queries >= 1

\* C28: in every state, also between the steps of a lookup that a
\* reset_stats of another thread interleaves with, exact_hits +
\* semantic_hits + misses is at most total_queries.
C28_CountersConsistentUnderReset ==
    stats.exact_hits + stats.semantic_hits + stats.misses <= stats.total_queries

\* the last min(limit, n) rows added for the session, in the order they
\* were added, as role and content
LastAdded(msgs, session_id, limit) ==
    LET InSession(m) == m.session_id = session_id
        rows == SelectSeq(msgs, InSession)
        n == Len(rows)
        k == IF limit < n THEN limit ELSE n
    IN  [i \in 1..k |-> [role |-> rows[n - k + i].role, content |-> rows[n - k + i].content]]

\* C29: get_history(session_id, limit) returns the last min(limit, n)
\* messages added for the session, oldest first in the order they were
\* added, also when messages of the session carry the same timestamp.
C29_HistoryIsMostRecentInOrder ==
    last.op = "get_history" =>
        last.history = LastAdded(messages, last.session, last.limit)

\* the case of C29 with its expected outcome: a limit below the number of
\* the session's rows, beside rows of another session
C29_Reached ==
    /\ last.op = "get_history" /\ last.limit = 2
    /\ Cardinality(RowsOf(messages, last.session)) = 3
    /\ last.history = LastAdded(messages, last.session, last.limit)

\* C30: a /query request in which configuration loading, the backend search
\* or the LLM generation raises ends with HTTP 500 and leaves the messages
\* table as it was; a request that succeeds appends exactly two rows to its
\* session, the user's question and then the assistant's answer.
C30_FailedQueryLeavesMemory ==
    last.op = "query" =>
        /\ (last.failed \in {"config", "search", "generate"} =>
              /\ last.status = "500" /\ last.raised
              /\ messages = last.messagesBefore)
        /\ (last.failed = "none" =>
              /\ last.status = "200"
              /\ Len(messages) = Len(last.messagesBefore) + 2
              /\ SubSeq(messages, 1, Len(last.messagesBefore)) = last.messagesBefore
              /\ LET user == messages[Len(messages) - 1]
                     assistant == messages[Len(messages)]
                 IN  /\ user.session_id = last.session /\ user.role = "user"
                     /\ user.content = last.question
                     /\ assistant.session_id = last.session
                     /\ assistant.role = "assistant"
                     /\ assistant.content = AnswerOf(last.question))

\* a request whose LLM generation raised, after a request that had saved
\* its turn
C30_Witness ==
    /\ last.op = "query" /\ last.failed = "generate" /\ last.status = "500"
    /\ Len(messages) = 2 /\ messages = last.messagesBefore

\* a request that succeeded after another one had saved its turn
C30_WitnessSuccess ==
    /\ last.op = "query" /\ last.failed = "none"
    /\ Len(last.messagesBefore) = 2 /\ Len(messages) = 4

====
